---- MODULE Spec2Model ----
(***************************************************************************)
(* Chrome VM hosting worker: the VM record store, the lifecycle handlers,  *)
(* the HTTP dispatcher and the agent proxy, in the four variants of the    *)
(* worker found in the repository:                                         *)
(*   "part_001"  src/unnamed/part_001     (D1-backed store, stop, proxy)   *)
(*   "part_000"  src/unnamed/part_000     (memory store, novnc-first)      *)
(*   "index"     src/src/index.ts         (memory store, generic-first)    *)
(*   "enhanced"  src/src/enhanced-index.ts (memory store, no start/proxy)  *)
(*                                                                         *)
(* The JavaScript Map activeVMs holds object references: two keys can      *)
(* name one object, and a handler mutates the object it looked up in       *)
(* place.  An object enters the map only under its own id and under the    *)
(* alias of its id (storeVM, the row cache of getVMFromStorage), and both  *)
(* replace whatever the map held under those keys, so the objects the map  *)
(* holds are told apart by their id: activeVMs maps a key to the id of the *)
(* object it refers to, objs maps that id to the object.  Once an object   *)
(* is in the map the handlers assign its status and nothing else, so a     *)
(* suspended handler carries the object it looked up by value.             *)
(*                                                                         *)
(* A handler runs atomically up to a suspension on an outbound call (the   *)
(* provisioning backend, the upstream agent) or a timer; the rest of the   *)
(* handler is a continuation held in inflight.  D1 statements are taken to *)
(* complete within the step that issues them.  A deployment's D1 binding   *)
(* is absent, bound and working, or bound and throwing on every statement  *)
(* (env.dbThrows); a binding that fails now and then is not modelled.      *)
(***************************************************************************)
EXTENDS Integers, Sequences, FiniteSets, TLC

VARIABLES
    variant,    \* which worker source is deployed
    env,        \* the bindings of Env that the handlers test
    activeVMs,  \* Map<string, VM>: key -> id of the object it refers to
    objs,       \* the VM objects the map refers to: id -> object
    vms,        \* D1 table vms: id -> row (part_001)
    vm_events,  \* the rows the last step inserted into D1 table vm_events
    inflight,   \* suspended handlers: slot -> continuation
    resp,       \* the response the last step returned, if any
    net,        \* the outbound HTTP call the last step issued, if any
    req,        \* the request fetch dispatched last and the handler it chose
    sel,        \* the strategy selection made last: its arguments and result
    service,    \* which container service of docker-service.js is running
    containers  \* the container service's store: key -> container

vars ==
    <<variant, env, activeVMs, objs, vms, vm_events, inflight, resp, net, req,
      sel, service, containers>>

(***************************************************************************)
(* Bounds                                                                  *)
(***************************************************************************)
MaxAliasDepth == 0   \* "working-vm-" prefixes a request id may carry
MaxInflight == 1     \* handlers suspended on an outbound call at a time
MaxConcurrent == 2   \* the same, where concurrent lifecycle calls are studied

BaseIds == {"a"}
Names == {"vm1"}

(***************************************************************************)
(* Keys                                                                    *)
(***************************************************************************)
Alias(vmId) == "working-vm-" \o vmId

RECURSIVE Prefixed(_, _)
Prefixed(vmId, n) == IF n = 0 THEN vmId ELSE Alias(Prefixed(vmId, n - 1))

\* the ids a request path or a create body can carry
ReqIds == {Prefixed(b, n) : b \in BaseIds, n \in 0..MaxAliasDepth}

NoKey == ""

(***************************************************************************)
(* VM objects and rows                                                     *)
(***************************************************************************)
Statuses == {"initializing", "ready", "running", "stopped", "error"}

\* values of originAgentUrl: absent, the worker's own /vms/{id}/agent URL,
\* or the URL the provisioning backend reported
NoUrl == ""
PublicAgentUrl == "public"
UpstreamAgentUrl == "http://u"

NoError == ""

NoVM == [id |-> NoKey]

NewVM(vmId, name) ==
    [id |-> vmId, name |-> name, status |-> "initializing",
     agentUrl |-> NoUrl, originAgentUrl |-> NoUrl, error |-> NoError]

MockVM(vmId) ==
    [id |-> vmId, name |-> "Mock VM " \o vmId, status |-> "ready",
     agentUrl |-> PublicAgentUrl, originAgentUrl |-> NoUrl, error |-> NoError]

\* the column values storeVM binds (x || null) and the object the SELECT
\* builds back from them
ToRow(vm) ==
    [id |-> vm.id, name |-> vm.name, status |-> vm.status,
     agent_url |-> vm.agentUrl, origin_agent_url |-> vm.originAgentUrl,
     error |-> vm.error]

FromRow(row) ==
    [id |-> row.id, name |-> row.name, status |-> row.status,
     agentUrl |-> row.agent_url, originAgentUrl |-> row.origin_agent_url,
     error |-> row.error]

(***************************************************************************)
(* The store: map, objects and table, threaded through the helpers as one  *)
(* record                                                                  *)
(***************************************************************************)
Store == [mem |-> activeVMs, objs |-> objs, db |-> vms, events |-> <<>>]

Has(m, k) == k \in DOMAIN m
Put(m, k, v) == [x \in DOMAIN m \cup {k} |-> IF x = k THEN v ELSE m[x]]
Del(m, k) == [x \in DOMAIN m \ {k} |-> m[x]]
Empty == [x \in {} |-> NoKey]

\* activeVMs.get(k): the id of the object, NoKey for undefined
MapGet(m, k) == IF Has(m, k) THEN m[k] ELSE NoKey

\* activeVMs.get(vmId) || activeVMs.get(`working-vm-${vmId}`)
Lookup(m, vmId) ==
    IF Has(m, vmId) THEN m[vmId] ELSE MapGet(m, Alias(vmId))

\* objects no key refers to any more are gone
Collect(S) ==
    [S EXCEPT !.objs = [i \in {S.mem[k] : k \in DOMAIN S.mem} |-> S.objs[i]]]

\* activeVMs.set(vm.id, vm); activeVMs.set(`working-vm-${vm.id}`, vm)
SetBoth(S, vm) ==
    [S EXCEPT !.mem = Put(Put(S.mem, vm.id, vm.id), Alias(vm.id), vm.id),
              !.objs = Put(S.objs, vm.id, vm)]

\* env.chrome_vm_db is bound and its statements run
DbWorks == variant = "part_001" /\ env.db /\ ~env.dbThrows

\* a storeVM that leaves a record already stored under vm.id as it is
storeVM_keepExisting(S, vm) ==
    IF Has(S.mem, vm.id) THEN S
    ELSE LET S1 == SetBoth(S, vm) IN
         [S1 EXCEPT !.db = IF DbWorks THEN Put(S.db, vm.id, ToRow(vm)) ELSE S.db]

\* storeVM(vm, env): both keys, then INSERT OR REPLACE (a throw is caught)
storeVM(S, vm) ==
    LET S1 == SetBoth(S, vm) IN
    [S1 EXCEPT !.db = IF DbWorks THEN Put(S.db, vm.id, ToRow(vm)) ELSE S.db]

\* getVMFromStorage(vmId, env): the store afterwards and the id of the
\* object returned (NoKey for null).  part_001 returns null without a D1
\* binding, caches a row it finds under the primary key only, and
\* otherwise, like part_000 and index, stores and returns a mock VM.
getVMFromStorage(S, vmId) ==
    IF Has(S.mem, vmId) THEN [S |-> S, vm |-> S.mem[vmId]]
    ELSE IF Has(S.mem, Alias(vmId)) THEN [S |-> S, vm |-> S.mem[Alias(vmId)]]
    ELSE IF variant = "part_001" /\ ~env.db THEN [S |-> S, vm |-> NoKey]
    ELSE IF DbWorks /\ Has(S.db, vmId)
         THEN [S |-> [S EXCEPT !.objs = Put(S.objs, vmId, FromRow(S.db[vmId])),
                               !.mem = Put(S.mem, vmId, vmId)],
               vm |-> vmId]
         ELSE [S |-> storeVM(S, MockVM(vmId)), vm |-> vmId]

(***************************************************************************)
(* Responses, outbound calls, suspension                                   *)
(***************************************************************************)
NoResp == [handler |-> "none", vmId |-> NoKey, status |-> 0]
Resp(h, vmId, status) == [handler |-> h, vmId |-> vmId, status |-> status]

\* net: the call a step issued (url, path), or how the call the resumed
\* handler awaited ended: the status the upstream agent answered a proxy
\* request with, the outcome of the provisioning call of a create, whether
\* the restart signal of a start or restart resolved or rejected
NoCall == [url |-> NoUrl, path |-> "", status |-> 0, outcome |-> ""]
Call(url, path) == [NoCall EXCEPT !.url = url, !.path = path]
Answered(status) == [NoCall EXCEPT !.status = status]
Provisioned(outcome) == [NoCall EXCEPT !.outcome = outcome]
Signalled(signal) == [NoCall EXCEPT !.outcome = signal]

Idle == [kind |-> "idle", vm |-> NoVM, vmId |-> NoKey, await |-> ""]
Slots == DOMAIN inflight

Cont(kind, vm, vmId, await) ==
    [kind |-> kind, vm |-> vm, vmId |-> vmId, await |-> await]

\* the continuation of a create also holds the strategy createRealVM chose
CreateCont(vm, vmId, await, strategy) ==
    [kind |-> "create", vm |-> vm, vmId |-> vmId, await |-> await,
     strategy |-> strategy]

CanSuspend == \E s \in Slots : inflight[s] = Idle

FreeSlot ==
    CHOOSE s \in Slots :
        inflight[s] = Idle /\ \A t \in Slots : t < s => inflight[t] # Idle

SetStore(S) ==
    LET T == Collect(S) IN
    /\ activeVMs' = T.mem
    /\ objs' = T.objs
    /\ vms' = T.db
    /\ vm_events' = T.events
    /\ UNCHANGED <<variant, env, req, sel, service, containers>>

\* the handler returns within the step
Return(S, r) ==
    /\ SetStore(S)
    /\ resp' = r
    /\ net' = NoCall
    /\ UNCHANGED inflight

\* the handler suspends on an outbound call (or a timer): no response yet
Suspend(S, cont, call) ==
    /\ CanSuspend
    /\ SetStore(S)
    /\ inflight' = [inflight EXCEPT ![FreeSlot] = cont]
    /\ resp' = NoResp
    /\ net' = call

\* the suspended handler of slot s resumes and returns
Resume(S, s, r) ==
    /\ SetStore(S)
    /\ inflight' = [inflight EXCEPT ![s] = Idle]
    /\ resp' = r
    /\ net' = NoCall

(***************************************************************************)
(* Handlers                                                                *)
(***************************************************************************)
Variants == {"part_001", "part_000", "index", "enhanced"}

\* the record a read handler works on: enhanced reads the map, the others
\* call getVMFromStorage
readVM(S, vmId) ==
    IF variant = "enhanced"
    THEN [S |-> S, vm |-> Lookup(S.mem, vmId)]
    ELSE getVMFromStorage(S, vmId)

\* a get that marks the record it returns ready when it is initializing
handleGetVM_settles(vmId) ==
    LET g == readVM(Store, vmId)
    IN IF g.vm # NoKey /\ g.S.objs[g.vm].status = "initializing"
       THEN Return(storeVM(g.S, [g.S.objs[g.vm] EXCEPT !.status = "ready"]),
                   Resp("handleGetVM", vmId, 200))
       ELSE Return(g.S, Resp("handleGetVM", vmId,
                             IF g.vm = NoKey THEN 404 ELSE 200))

\* handleGetVM(vmId): 404 without a record, else the record as JSON
handleGetVM(vmId) ==
    LET g == readVM(Store, vmId)
    IN Return(g.S, Resp("handleGetVM", vmId, IF g.vm = NoKey THEN 404 ELSE 200))

(***************************************************************************)
(* Strategy selection.  Instance types are character sequences so that     *)
(* String.prototype.includes is computed, not tabulated.                   *)
(***************************************************************************)
E2Standard4 == <<"e", "2", "-", "s", "t", "a", "n", "d", "a", "r", "d", "-", "4">>
T3Medium == <<"t", "3", ".", "m", "e", "d", "i", "u", "m">>
M5Large == <<"m", "5", ".", "l", "a", "r", "g", "e">>

\* instanceType of a create body: a string, a (truthy) JSON number, or absent
StringType(chars) == [kind |-> "string", chars |-> chars]
NumberType == [kind |-> "number", chars |-> <<>>]
AbsentType == [kind |-> "absent", chars |-> <<>>]
InstanceTypes ==
    {StringType(E2Standard4), StringType(T3Medium), StringType(M5Large),
     NumberType, AbsentType}

GoogleCloudServer == "default-google-cloud-server"
NoServer == ""
ServerIds == {GoogleCloudServer, NoServer}

\* s.includes(p)
Includes(s, p) ==
    \E i \in 0..(Len(s) - Len(p)) : SubSeq(s, i + 1, i + Len(p)) = p

\* instanceType || 't3.medium'
OrDefault(instanceType) ==
    IF instanceType.kind = "absent" THEN StringType(T3Medium) ELSE instanceType

\* the selector with the server preference tested first
selectDeploymentStrategy_serverFirst(chars, serverId) ==
    IF serverId = GoogleCloudServer THEN "google_cloud"
    ELSE IF Includes(chars, <<"e", "2", "-">>) THEN "google_cloud"
    ELSE "cloudflare"

\* the selector with the lightweight pattern tested first
selectDeploymentStrategy_lightFirst(chars, serverId) ==
    IF Includes(chars, <<"t", "3", ".">>) THEN "cloudflare"
    ELSE IF Includes(chars, <<"e", "2", "-">>) THEN "google_cloud"
    ELSE IF serverId = GoogleCloudServer THEN "google_cloud"
    ELSE "cloudflare"

\* part_001: selectDeploymentStrategy(instanceType, serverId)
selectDeploymentStrategy(chars, serverId) ==
    IF Includes(chars, <<"e", "2", "-">>) THEN "google_cloud"
    ELSE IF Includes(chars, <<"t", "3", ".">>) THEN "cloudflare"
    ELSE IF serverId = GoogleCloudServer THEN "google_cloud"
    ELSE "cloudflare"

\* part_000, index, enhanced: selectDeploymentStrategy(instanceType)
selectDeploymentStrategy_p0(chars) ==
    IF Includes(chars, <<"e", "2", "-">>) THEN "google_cloud"
    ELSE IF Includes(chars, <<"t", "3", ".">>) THEN "railway"
    ELSE "cloudflare"

\* the selector of the deployed worker; only part_001 passes vm.serverId
Select(v, chars, serverId) ==
    IF v = "part_001"
    THEN selectDeploymentStrategy(chars, serverId)
    ELSE selectDeploymentStrategy_p0(chars)

NoSel == [instanceType |-> <<>>, serverId |-> NoServer, strategy |-> "none"]

(***************************************************************************)
(* Provisioning backends: where the backend suspends first.  A backend     *)
(* that only sleeps suspends on "timer"; one that calls out suspends on    *)
(* the call.                                                               *)
(***************************************************************************)
\* a createGoogleCloudVM that goes to the Docker service without looking
\* at the credentials
createGoogleCloudVM_noCredTest == IF env.docker THEN "docker" ELSE "timer"

\* part_001 createGoogleCloudVM up to its first await
createGoogleCloudVM ==
    IF ~env.gcp THEN "timer"
    ELSE IF env.docker THEN "docker"
    ELSE "timer"

\* part_000, index: createRailwayVM up to its first await
createRailwayVM == IF env.railway THEN "railway" ELSE "timer"

\* the await createRealVM suspends on, given the strategy
BackendAwait(strategy) ==
    IF variant = "part_001"
    THEN (IF strategy = "google_cloud" THEN createGoogleCloudVM ELSE "timer")
    ELSE (IF strategy = "railway" THEN createRailwayVM ELSE "timer")

\* what the external provisioning endpoint can do with the POST
BackendOutcomes(await) ==
    IF await = "timer" THEN {"elapsed"}
    ELSE {"ok-with-agent-url", "ok-without-agent-url", "ok-bad-json",
          "not-ok", "rejected"}

\* the descriptor's originAgentUrl after the backend resumed, or "throw"
\* when the backend throws out of createRealVM's switch
BackendResult(await, outcome) ==
    CASE await = "timer" -> NoUrl
      [] await = "docker" ->
            (IF outcome = "ok-with-agent-url" THEN UpstreamAgentUrl ELSE NoUrl)
      [] await = "railway" ->
            (IF outcome = "ok-with-agent-url" THEN UpstreamAgentUrl
             ELSE IF outcome = "ok-without-agent-url" THEN NoUrl
             ELSE "throw")

BackendUrl(await) ==
    IF await = "docker" THEN "DOCKER_SERVICE_URL"
    ELSE IF await = "railway" THEN "RAILWAY_VM_SERVER_URL"
    ELSE NoUrl

BackendPath(await) ==
    IF await = "docker" THEN "/containers"
    ELSE IF await = "railway" THEN "/api/vms"
    ELSE ""

(***************************************************************************)
(* Create                                                                  *)
(***************************************************************************)
UsedKeys ==
    DOMAIN activeVMs \cup DOMAIN vms \cup {inflight[s].vm.id : s \in Slots}

\* generateVMId(): an id nothing in the system mentions yet
GeneratedIds ==
    {g \in BaseIds : \A n \in 0..(MaxAliasDepth + 1) : Prefixed(g, n) \notin UsedKeys}

\* requestedVmId || generateVMId(); only part_001 reads vmId from the body
AssignedIds(requestedVmId) ==
    IF variant = "part_001" /\ requestedVmId # NoKey
    THEN {requestedVmId}
    ELSE GeneratedIds

\* a catch block that sets the status and leaves vm.error unset
CreateFailed_noMessage(S, vm) ==
    LET vm1 == [vm EXCEPT !.status = "error"]
    IN storeVM(storeVM(S, vm1), vm1)

\* the catch block of createRealVM, then handleCreateVM's own storeVM
CreateFailed(S, vm) ==
    LET vm1 == [vm EXCEPT !.status = "error", !.error = "message"]
    IN storeVM(storeVM(S, vm1), vm1)

\* a createRealVM that takes the origin URL from the descriptor as it is
CreateSucceeded_noFallback(S, vm, origin) ==
    LET vm1 == [vm EXCEPT !.status = "ready",
                          !.agentUrl = PublicAgentUrl,
                          !.originAgentUrl = origin]
    IN storeVM(storeVM(S, vm1), vm1)

\* the tail of createRealVM's try block, then handleCreateVM's own storeVM
CreateSucceeded(S, vm, origin) ==
    LET vm1 == [vm EXCEPT !.status = "ready",
                          !.agentUrl = PublicAgentUrl,
                          !.originAgentUrl =
                              IF origin # NoUrl THEN origin ELSE PublicAgentUrl]
    IN storeVM(storeVM(S, vm1), vm1)

\* handleCreateVM of part_001, part_000 and index up to the backend's await
handleCreateVM_sync(name, instanceType, serverId, requestedVmId) ==
    IF name = ""
    THEN Return(Store, Resp("handleCreateVM", NoKey, 400))
    ELSE
      \E g \in AssignedIds(requestedVmId) :
        /\ LET vm == NewVM(g, name)
               it == OrDefault(instanceType)
           IN IF it.kind # "string"
              THEN Return(CreateFailed(Store, vm), Resp("handleCreateVM", g, 201))
              ELSE LET strategy == Select(variant, it.chars, serverId)
                       await == BackendAwait(strategy)
                   IN Suspend(Store, CreateCont(vm, g, await, strategy),
                              Call(BackendUrl(await), BackendPath(await)))

\* createRealVM resumes when the backend returns or throws
createRealVM(s) ==
    LET c == inflight[s] IN
    /\ c.kind = "create"
    /\ \E outcome \in BackendOutcomes(c.await) :
         LET origin == BackendResult(c.await, outcome) IN
         /\ SetStore(IF origin = "throw"
                     THEN CreateFailed(Store, c.vm)
                     ELSE CreateSucceeded(Store, c.vm, origin))
         /\ inflight' = [inflight EXCEPT ![s] = Idle]
         /\ resp' = Resp("handleCreateVM", c.vmId, 201)
         /\ net' = Provisioned(outcome)

\* enhanced-index.ts: the record is stored, then ctx.waitUntil(...) is
\* evaluated in a function that has no binding named ctx
handleCreateVM_en(name) ==
    IF name = ""
    THEN Return(Store, Resp("handleCreateVM", NoKey, 400))
    ELSE \E g \in GeneratedIds :
           Return(SetBoth(Store, NewVM(g, name)), Resp("handleCreateVM", g, 500))

\* a create that stores the record before it looks at the name
handleCreateVM_storeFirst(name, instanceType, serverId, requestedVmId) ==
    IF name = ""
    THEN \E g \in GeneratedIds :
           Return(SetBoth(Store, NewVM(g, name)), Resp("handleCreateVM", NoKey, 400))
    ELSE IF variant = "enhanced"
    THEN handleCreateVM_en(name)
    ELSE handleCreateVM_sync(name, instanceType, serverId, requestedVmId)

handleCreateVM(name, instanceType, serverId, requestedVmId) ==
    IF variant = "enhanced"
    THEN handleCreateVM_en(name)
    ELSE handleCreateVM_sync(name, instanceType, serverId, requestedVmId)

(***************************************************************************)
(* Delete, start, restart, stop                                            *)
(***************************************************************************)
handleDeleteVM(vmId) ==
    LET r == Lookup(activeVMs, vmId) IN
    IF r = NoKey
    THEN Return(Store, Resp("handleDeleteVM", vmId, 404))
    ELSE Return([Store EXCEPT !.objs[r].status = "stopped",
                              !.mem = Del(Del(activeVMs, vmId), Alias(vmId))],
                Resp("handleDeleteVM", vmId, 200))

\* a write that is dropped when the stored record changed since it was read
SetStatus_ifUnchanged(S, vm, status) ==
    IF Has(S.objs, vm.id) /\ S.objs[vm.id].status # vm.status
    THEN S
    ELSE storeVM(S, [vm EXCEPT !.status = status])

\* vm.status = ...; vm.lastActivity = ...; await storeVM(vm, env)
SetStatus(S, vm, status) == storeVM(S, [vm EXCEPT !.status = status])

\* start assigning what restart assigns, and restart what start assigns
StartStatus_asRestart == "initializing"
RestartStatus_asStart == "ready"

\* the status handleStartVM and handleRestartVM assign
StartStatus == "ready"
RestartStatus == "initializing"

\* handleStartVM / handleRestartVM up to the await of the restart signal
Lifecycle(handler, status, vmId) ==
    LET r == Lookup(activeVMs, vmId) IN
    IF r = NoKey
    THEN Return(Store, Resp(handler, vmId, 404))
    ELSE IF objs[r].originAgentUrl # NoUrl
    THEN Suspend(Store, Cont(handler, objs[r], vmId, "agent"),
                 Call(objs[r].originAgentUrl, "/browser/restart"))
    ELSE Return(SetStatus(Store, objs[r], status), Resp(handler, vmId, 200))

handleStartVM(vmId) == Lifecycle("handleStartVM", StartStatus, vmId)

handleRestartVM(vmId) == Lifecycle("handleRestartVM", RestartStatus, vmId)

\* a handler that answers 500 when the restart signal failed
AfterSignal_surfaced(signal) == IF signal = "rejected" THEN 500 ELSE 200

\* fetch(...).catch(() => {}): the handler goes on to its success response
\* whether the signal resolved or rejected
AfterSignal(signal) == 200

\* the restart signal resolved or rejected: the handler goes on with the
\* object it looked up before the await
LifecycleResumed(s) ==
    LET c == inflight[s] IN
    /\ c.kind \in {"handleStartVM", "handleRestartVM"}
    /\ \E signal \in {"resolved", "rejected"} :
         /\ SetStore(SetStatus(Store, c.vm,
                               IF c.kind = "handleStartVM" THEN StartStatus
                               ELSE RestartStatus))
         /\ inflight' = [inflight EXCEPT ![s] = Idle]
         /\ resp' = Resp(c.kind, c.vmId, AfterSignal(signal))
         /\ net' = Signalled(signal)

\* a recordEvent that inserts nothing
recordEvent_none(S, vmId, eventType) == S

\* part_001 recordEvent(vmId, eventType, eventData, env): one INSERT INTO
\* vm_events; a throw (no binding, a failing statement) is caught
recordEvent(S, vmId, eventType) ==
    IF DbWorks
    THEN [S EXCEPT !.events =
              Append(@, [vm_id |-> vmId, event_type |-> eventType])]
    ELSE S

\* part_001 handleStopVM
handleStopVM(vmId) ==
    LET g == getVMFromStorage(Store, vmId) IN
    IF g.vm = NoKey
    THEN Return(g.S, Resp("handleStopVM", vmId, 404))
    ELSE Return(recordEvent(SetStatus(g.S, g.S.objs[g.vm], "stopped"),
                            vmId, "stopped"),
                Resp("handleStopVM", vmId, 200))

(***************************************************************************)
(* Pages and descriptors                                                   *)
(***************************************************************************)
\* handleNoVNC: the HTML page of the record getVMFromStorage returns
\* (enhanced: of the record in the map)
handleNoVNC(vmId) ==
    LET g == readVM(Store, vmId)
    IN Return(g.S, Resp("handleNoVNC", vmId, IF g.vm = NoKey THEN 404 ELSE 200))

\* handleAgent: the capability descriptor of the record in the map
handleAgent(vmId) ==
    Return(Store, Resp("handleAgent", vmId,
                       IF Lookup(activeVMs, vmId) = NoKey THEN 404 ELSE 200))

\* part_001 handleGetVMStatus: the record, then a SELECT on vm_metrics
handleGetVMStatus(vmId) ==
    LET g == getVMFromStorage(Store, vmId) IN
    Return(g.S, Resp("handleGetVMStatus", vmId,
                     IF g.vm = NoKey THEN 404
                     ELSE IF DbWorks THEN 200 ELSE 500))

\* handleGetVMs: the status and, per id, how many entries of the list
\* carry it.  part_001 with D1 bound lists the rows of the table (500 when
\* the SELECT throws); otherwise Array.from(activeVMs.values()) lists a
\* record once per key that refers to it.
handleGetVMs(S) ==
    IF variant = "part_001" /\ env.db
    THEN IF env.dbThrows
         THEN [status |-> 500, vms |-> Empty]
         ELSE [status |-> 200, vms |-> [i \in DOMAIN S.db |-> 1]]
    ELSE [status |-> 200,
          vms |-> [i \in DOMAIN S.objs |->
                      Cardinality({k \in DOMAIN S.mem : S.mem[k] = i})]]

(***************************************************************************)
(* Agent proxy                                                             *)
(***************************************************************************)
ProxyActions == {"browser/navigate", "restart", "status", "execute", "screenshot"}

\* the switch with status sent where execute goes
UpstreamPath_statusAsRun(action) ==
    CASE action = "browser/navigate" -> "/browser/navigate"
      [] action = "restart" -> "/browser/restart"
      [] action = "status" -> "/run"
      [] action = "execute" -> "/run"
      [] action = "screenshot" -> "/run"
      [] OTHER -> ""

\* the switch of handleAgentProxy; "" is its default branch
UpstreamPath(action) ==
    CASE action = "browser/navigate" -> "/browser/navigate"
      [] action = "restart" -> "/browser/restart"
      [] action = "status" -> "/health"
      [] action = "execute" -> "/run"
      [] action = "screenshot" -> "/run"
      [] OTHER -> ""

UpstreamStatuses == {200, 404, 500}

\* handleAgentProxy without its test of vm.originAgentUrl
handleAgentProxy_noOriginTest(vmId, action) ==
    LET r == Lookup(activeVMs, vmId) IN
    IF r = NoKey
    THEN Return(Store, Resp("handleAgentProxy", vmId, 404))
    ELSE IF UpstreamPath(action) = ""
    THEN Return(Store, Resp("handleAgentProxy", vmId, 400))
    ELSE Suspend(Store, Cont("handleAgentProxy", NoVM, vmId, "agent"),
                 Call(objs[r].originAgentUrl, UpstreamPath(action)))

\* handleAgentProxy up to the await of the upstream fetch
handleAgentProxy(vmId, action) ==
    LET r == Lookup(activeVMs, vmId) IN
    IF r = NoKey
    THEN Return(Store, Resp("handleAgentProxy", vmId, 404))
    ELSE IF objs[r].originAgentUrl = NoUrl
    THEN Return(Store, Resp("handleAgentProxy", vmId, 400))
    ELSE IF UpstreamPath(action) = ""
    THEN Return(Store, Resp("handleAgentProxy", vmId, 400))
    ELSE Suspend(Store, Cont("handleAgentProxy", NoVM, vmId, "agent"),
                 Call(objs[r].originAgentUrl, UpstreamPath(action)))

\* a proxy that answers 502 for whatever is not a 200 of the upstream
ProxyStatus_asGateway(upstream) == IF upstream = 200 THEN 200 ELSE 502

\* new Response(resp.body, { status: resp.status, headers })
ProxyStatus(upstream) == upstream

\* a proxy that marks the record running once the upstream has answered
ProxyResumed_marksRunning(s) ==
    LET c == inflight[s]
        r == Lookup(activeVMs, c.vmId)
    IN /\ c.kind = "handleAgentProxy"
       /\ \E upstream \in UpstreamStatuses \cup {0} :
            /\ SetStore(IF r = NoKey THEN Store
                        ELSE storeVM(Store, [objs[r] EXCEPT !.status = "running"]))
            /\ inflight' = [inflight EXCEPT ![s] = Idle]
            /\ resp' = Resp("handleAgentProxy", c.vmId, ProxyStatus(upstream))
            /\ net' = Answered(upstream)

\* the upstream answered (its status is passed on) or the fetch rejected
\* (upstream 0): the handler's promise was returned without await, so the
\* rejection leaves fetch() with no response (status 0)
ProxyResumed(s) ==
    LET c == inflight[s] IN
    /\ c.kind = "handleAgentProxy"
    /\ \E upstream \in UpstreamStatuses \cup {0} :
         /\ SetStore(Store)
         /\ inflight' = [inflight EXCEPT ![s] = Idle]
         /\ resp' = Resp("handleAgentProxy", c.vmId, ProxyStatus(upstream))
         /\ net' = Answered(upstream)

(***************************************************************************)
(* The dispatcher.  A path is the sequence of its segments; the segment    *)
(* after "vms" is split('/')[2], the VM id.                                *)
(***************************************************************************)
Methods == {"GET", "POST", "DELETE", "PUT", "OPTIONS"}

Suffixes ==
    {"novnc", "agent", "start", "restart", "stop", "status", "scripts",
     "metrics", "events"}

ActionPaths ==
    {<<"browser", "navigate">>, <<"restart">>, <<"status">>, <<"execute">>,
     <<"screenshot">>}

PathsOf(vmId) ==
    {<<"vms", vmId>>}
    \cup {<<"vms", vmId, x>> : x \in Suffixes}
    \cup {<<"vms", vmId, "agent">> \o a : a \in ActionPaths \cup {<<"reboot">>}}

\* ids a create body can also carry: the names of two sub-resources
SubResourceIds == {"novnc", "agent"}

Paths ==
    {<<"health">>, <<"vms">>, <<"services">>}
    \cup UNION {PathsOf(id) : id \in ReqIds \cup SubResourceIds}

\* pathname.startsWith('/vms/')
StartsWithVms(path) == Len(path) >= 2 /\ path[1] = "vms"

\* pathname.endsWith('/' + segment)
EndsWith(path, segment) == path[Len(path)] = segment

\* pathname.match(/^\/vms\/[A-Za-z0-9_-]+\/segment$/)
MatchesSuffix(path, segment) ==
    Len(path) = 3 /\ path[1] = "vms" /\ path[2] # "" /\ path[3] = segment

\* pathname.match(/^\/vms\/[A-Za-z0-9_-]+\/agent\/(browser\/navigate|...)$/)
MatchesAgentAction(path) ==
    /\ Len(path) >= 4 /\ path[1] = "vms" /\ path[2] # "" /\ path[3] = "agent"
    /\ SubSeq(path, 4, Len(path)) \in ActionPaths

\* parts.slice(4).join('/')
ActionOf(path) ==
    IF Len(path) = 5 THEN path[4] \o "/" \o path[5]
    ELSE IF Len(path) = 4 THEN path[4]
    ELSE ""

VmIdOf(path) == IF Len(path) >= 2 THEN path[2] ELSE NoKey

\* the tail every variant shares: GET /services, then 404
ServicesOrNotFound(method, path) ==
    IF path = <<"services">> /\ method = "GET" THEN "handleGetServices"
    ELSE "notFound"

\* src/unnamed/part_001 fetch
fetch_part_001(method, path) ==
    IF method = "OPTIONS" THEN "preflight"
    ELSE IF path = <<"health">> THEN "health"
    ELSE IF MatchesSuffix(path, "scripts") /\ method = "POST" THEN "handleExecuteScript"
    ELSE IF MatchesSuffix(path, "scripts") /\ method = "GET" THEN "handleGetScripts"
    ELSE IF MatchesSuffix(path, "metrics") /\ method = "GET" THEN "handleGetMetrics"
    ELSE IF MatchesSuffix(path, "metrics") /\ method = "POST" THEN "handleRecordMetrics"
    ELSE IF MatchesSuffix(path, "events") /\ method = "GET" THEN "handleGetEvents"
    ELSE IF MatchesSuffix(path, "stop") /\ method = "POST" THEN "handleStopVM"
    ELSE IF MatchesSuffix(path, "status") /\ method = "GET" THEN "handleGetVMStatus"
    ELSE IF path = <<"vms">> /\ method = "GET" THEN "handleGetVMs"
    ELSE IF path = <<"vms">> /\ method = "POST" THEN "handleCreateVM"
    ELSE IF StartsWithVms(path) /\ EndsWith(path, "novnc") THEN "handleNoVNC"
    ELSE IF StartsWithVms(path) /\ EndsWith(path, "agent") THEN "handleAgent"
    ELSE IF MatchesSuffix(path, "start") /\ method = "POST" THEN "handleStartVM"
    ELSE IF MatchesSuffix(path, "restart") /\ method = "POST" THEN "handleRestartVM"
    ELSE IF StartsWithVms(path) /\ method = "GET" THEN "handleGetVM"
    ELSE IF StartsWithVms(path) /\ method = "DELETE" THEN "handleDeleteVM"
    ELSE IF MatchesAgentAction(path) THEN "handleAgentProxy"
    ELSE ServicesOrNotFound(method, path)

\* src/unnamed/part_000 fetch
fetch_part_000(method, path) ==
    IF method = "OPTIONS" THEN "preflight"
    ELSE IF path = <<"health">> THEN "health"
    ELSE IF path = <<"vms">> /\ method = "GET" THEN "handleGetVMs"
    ELSE IF path = <<"vms">> /\ method = "POST" THEN "handleCreateVM"
    ELSE IF StartsWithVms(path) /\ EndsWith(path, "novnc") THEN "handleNoVNC"
    ELSE IF StartsWithVms(path) /\ EndsWith(path, "agent") THEN "handleAgent"
    ELSE IF MatchesSuffix(path, "start") /\ method = "POST" THEN "handleStartVM"
    ELSE IF MatchesSuffix(path, "restart") /\ method = "POST" THEN "handleRestartVM"
    ELSE IF StartsWithVms(path) /\ method = "GET" THEN "handleGetVM"
    ELSE IF StartsWithVms(path) /\ method = "DELETE" THEN "handleDeleteVM"
    ELSE IF MatchesAgentAction(path) THEN "handleAgentProxy"
    ELSE ServicesOrNotFound(method, path)

\* src/src/index.ts fetch
fetch_index(method, path) ==
    IF method = "OPTIONS" THEN "preflight"
    ELSE IF path = <<"health">> THEN "health"
    ELSE IF path = <<"vms">> /\ method = "GET" THEN "handleGetVMs"
    ELSE IF path = <<"vms">> /\ method = "POST" THEN "handleCreateVM"
    ELSE IF StartsWithVms(path) /\ method = "GET" THEN "handleGetVM"
    ELSE IF StartsWithVms(path) /\ method = "DELETE" THEN "handleDeleteVM"
    ELSE IF MatchesSuffix(path, "start") /\ method = "POST" THEN "handleStartVM"
    ELSE IF MatchesSuffix(path, "restart") /\ method = "POST" THEN "handleRestartVM"
    ELSE IF StartsWithVms(path) /\ EndsWith(path, "novnc") THEN "handleNoVNC"
    ELSE IF StartsWithVms(path) /\ EndsWith(path, "agent") THEN "handleAgent"
    ELSE IF MatchesAgentAction(path) THEN "handleAgentProxy"
    ELSE ServicesOrNotFound(method, path)

\* src/src/enhanced-index.ts fetch
fetch_enhanced(method, path) ==
    IF method = "OPTIONS" THEN "preflight"
    ELSE IF path = <<"health">> THEN "health"
    ELSE IF path = <<"vms">> /\ method = "GET" THEN "handleGetVMs"
    ELSE IF path = <<"vms">> /\ method = "POST" THEN "handleCreateVM"
    ELSE IF StartsWithVms(path) /\ method = "GET" THEN "handleGetVM"
    ELSE IF StartsWithVms(path) /\ method = "DELETE" THEN "handleDeleteVM"
    ELSE IF StartsWithVms(path) /\ EndsWith(path, "novnc") THEN "handleNoVNC"
    ELSE IF StartsWithVms(path) /\ EndsWith(path, "agent") THEN "handleAgent"
    ELSE ServicesOrNotFound(method, path)

\* the handler the deployed worker's fetch hands the request to
fetch(v, method, path) ==
    CASE v = "part_001" -> fetch_part_001(method, path)
      [] v = "part_000" -> fetch_part_000(method, path)
      [] v = "index" -> fetch_index(method, path)
      [] v = "enhanced" -> fetch_enhanced(method, path)

\* the handlers some request for vmId reaches, per variant
Reaches ==
    [v \in Variants |->
        [id \in ReqIds |->
            {fetch(v, m, p) : m \in Methods, p \in PathsOf(id)}]]

\* the actions with which some request for vmId reaches the proxy
ReachesProxy ==
    [v \in Variants |->
        [id \in ReqIds |->
            {ActionOf(p) : p \in {q \in PathsOf(id) :
                \E m \in Methods : fetch(v, m, q) = "handleAgentProxy"}}]]

Routed(handler, vmId) == handler \in Reaches[variant][vmId]

NoReq == [method |-> "", path |-> <<>>, handler |-> "none"]

NoService == "none"

Envs ==
    [db : BOOLEAN, dbThrows : BOOLEAN, gcp : BOOLEAN, docker : BOOLEAN,
     railway : BOOLEAN]

\* a binding is set only where the deployed variant reads it
Deployments ==
    {d \in [variant : Variants, env : Envs] :
        /\ d.variant # "part_001" => (~d.env.db /\ ~d.env.gcp /\ ~d.env.docker)
        /\ d.variant \notin {"part_000", "index"} => ~d.env.railway
        /\ d.env.dbThrows => d.env.db}

\* a freshly started isolate that lets n handlers be suspended at a time
Started(n) ==
    /\ \E d \in Deployments : variant = d.variant /\ env = d.env
    /\ activeVMs = Empty
    /\ objs = Empty
    /\ vms = Empty
    /\ vm_events = <<>>
    /\ inflight = [s \in 1..n |-> Idle]
    /\ resp = NoResp
    /\ net = NoCall
    /\ req = NoReq
    /\ sel = NoSel
    /\ service = NoService
    /\ containers = Empty

Init == Started(MaxInflight)

CreateVM ==
    \/ handleCreateVM("", AbsentType, NoServer, NoKey)
    \/ \E name \in Names, it \in InstanceTypes, sid \in ServerIds,
          rid \in ReqIds \cup {NoKey} :
           handleCreateVM(name, it, sid, rid)

CreateDone == \E s \in Slots : createRealVM(s)

GetVM == \E vmId \in ReqIds : Routed("handleGetVM", vmId) /\ handleGetVM(vmId)

GetVMs == Return(Store, Resp("handleGetVMs", NoKey, handleGetVMs(Store).status))

DeleteVM ==
    \E vmId \in ReqIds : Routed("handleDeleteVM", vmId) /\ handleDeleteVM(vmId)

StartVM ==
    \E vmId \in ReqIds : Routed("handleStartVM", vmId) /\ handleStartVM(vmId)

RestartVM ==
    \E vmId \in ReqIds : Routed("handleRestartVM", vmId) /\ handleRestartVM(vmId)

LifecycleDone == \E s \in Slots : LifecycleResumed(s)

StopVM ==
    \E vmId \in ReqIds : Routed("handleStopVM", vmId) /\ handleStopVM(vmId)

NoVNC == \E vmId \in ReqIds : Routed("handleNoVNC", vmId) /\ handleNoVNC(vmId)

Agent == \E vmId \in ReqIds : Routed("handleAgent", vmId) /\ handleAgent(vmId)

GetVMStatus ==
    \E vmId \in ReqIds :
        Routed("handleGetVMStatus", vmId) /\ handleGetVMStatus(vmId)

AgentProxy ==
    \E vmId \in ReqIds :
        \E action \in ReachesProxy[variant][vmId] : handleAgentProxy(vmId, action)

ProxyDone == \E s \in Slots : ProxyResumed(s)

\* a request no route matches
NotFound ==
    \E vmId \in ReqIds :
        Routed("notFound", vmId) /\ Return(Store, Resp("notFound", vmId, 404))

Next ==
    \/ CreateVM
    \/ CreateDone
    \/ GetVM
    \/ GetVMs
    \/ DeleteVM
    \/ StartVM
    \/ RestartVM
    \/ LifecycleDone
    \/ StopVM
    \/ NoVNC
    \/ Agent
    \/ GetVMStatus
    \/ AgentProxy
    \/ ProxyDone
    \/ NotFound

Spec == Init /\ [][Next]_vars

(***************************************************************************)
(* Fairness.  A create suspended on setTimeout resumes: the runtime fires  *)
(* the timer.  A create suspended on fetch resumes when the endpoint       *)
(* answers or the connection fails; the fetch carries no AbortSignal and   *)
(* is not raced against a timer, so nothing in the worker makes it resume. *)
(***************************************************************************)
TimerFires == \E s \in Slots : inflight[s].await = "timer" /\ createRealVM(s)

FairSpec == Spec /\ WF_vars(TimerFires)

(***************************************************************************)
(* Create, delete, start and restart with two handlers suspended at a time *)
(***************************************************************************)
LifecycleNext ==
    \/ CreateVM
    \/ CreateDone
    \/ DeleteVM
    \/ StartVM
    \/ RestartVM
    \/ LifecycleDone

LifecycleSpec == Started(MaxConcurrent) /\ [][LifecycleNext]_vars

(***************************************************************************)
(* The dispatcher on its own: fetch applied to every method and path       *)
(***************************************************************************)
Dispatch ==
    \E method \in Methods, path \in Paths :
        /\ req' = [method |-> method, path |-> path,
                   handler |-> fetch(variant, method, path)]
        /\ UNCHANGED <<variant, env, activeVMs, objs, vms, vm_events, inflight,
                       resp, net, sel, service, containers>>

RouteSpec == Init /\ [][Dispatch]_vars

(***************************************************************************)
(* The strategy selector on its own, applied to instance types that hold   *)
(* none, one or both of the substrings it looks for                        *)
(***************************************************************************)
SelectTypes ==
    {E2Standard4, T3Medium, M5Large,
     <<"e", "2", "-", "m", "e", "d", "i", "u", "m">>,
     <<"t", "3", ".", "e", "2", "-">>,
     <<"e", "2">>,
     <<"x", "t", "3", ".">>,
     <<>>}

SelectStrategy ==
    \E chars \in SelectTypes, serverId \in ServerIds :
        /\ sel' = [instanceType |-> chars, serverId |-> serverId,
                   strategy |-> Select(variant, chars, serverId)]
        /\ UNCHANGED <<variant, env, activeVMs, objs, vms, vm_events, inflight,
                       resp, net, req, service, containers>>

SelectSpec == Init /\ [][SelectStrategy]_vars

(***************************************************************************)
(* The container service (src/docker-service.js).  The file holds two      *)
(* services: "compose" starts the container with docker-compose and keeps  *)
(* a Map keyed by the id it generated; "run" starts it with docker run and *)
(* keeps an object keyed by a uuid.                                        *)
(***************************************************************************)
Services == {"compose", "run"}

\* the ids a service generates (containerId of "compose", uuidv4() of "run")
Uuids == {"u1", "u2"}

\* the container id docker run prints for the container named after uuid
DockerId(uuid) == "docker-" \o uuid

\* the id of the simulated container
SimId(uuid) == "sim-" \o uuid

\* the ids a request path can carry
ContainerIds == Uuids \cup {DockerId(u) : u \in Uuids} \cup {SimId(u) : u \in Uuids}

\* what starting the container can come to
StartOutcomes == {"started", "failed"}

\* the id field of the container a POST /containers answers with
CreatedId(uuid, outcome) ==
    IF service = "compose" THEN uuid
    ELSE IF outcome = "started" THEN DockerId(uuid)
    ELSE SimId(uuid)

ThisStep(S, r) ==
    /\ containers' = S
    /\ resp' = r
    /\ UNCHANGED <<variant, env, activeVMs, objs, vms, vm_events, inflight,
                   net, req, sel, service>>

\* app.post('/containers'): "compose" stores and answers only when
\* docker-compose exited with 0; "run" stores the container under the uuid,
\* the real one or the simulated one
postContainers ==
    \E uuid \in Uuids \ DOMAIN containers, outcome \in StartOutcomes :
        LET id == CreatedId(uuid, outcome) IN
        IF service = "compose"
        THEN IF outcome = "started"
             THEN ThisStep(Put(containers, uuid, [id |-> id, status |-> "running"]),
                           Resp("postContainers", id, 200))
             ELSE ThisStep(containers, Resp("postContainers", NoKey, 500))
        ELSE ThisStep(Put(containers, uuid,
                          [id |-> id,
                           status |-> IF outcome = "started" THEN "running"
                                      ELSE "simulated"]),
                      Resp("postContainers", id, 201))

\* app.get('/containers/:id')
getContainer ==
    \E id \in ContainerIds :
        ThisStep(containers,
                 Resp("getContainer", id, IF Has(containers, id) THEN 200 ELSE 404))

\* app.delete('/containers/:id'): "compose" deletes the entry when docker
\* stop has exited, whatever its code; "run" keeps it and answers 500 when
\* docker stop or docker rm of a real container fails
deleteContainer ==
    \E id \in ContainerIds, outcome \in {"stopped", "failed"} :
        IF ~Has(containers, id)
        THEN ThisStep(containers, Resp("deleteContainer", id, 404))
        ELSE IF service = "compose"
        THEN ThisStep(Del(containers, id), Resp("deleteContainer", id, 200))
        ELSE IF containers[id].status = "running" /\ outcome = "failed"
        THEN ThisStep(containers, Resp("deleteContainer", id, 500))
        ELSE ThisStep(Del(containers, id), Resp("deleteContainer", id, 204))

ContainerInit ==
    /\ variant = "part_001"
    /\ env = [db |-> FALSE, dbThrows |-> FALSE, gcp |-> TRUE, docker |-> TRUE,
              railway |-> FALSE]
    /\ activeVMs = Empty
    /\ objs = Empty
    /\ vms = Empty
    /\ vm_events = <<>>
    /\ inflight = [s \in 1..MaxInflight |-> Idle]
    /\ resp = NoResp
    /\ net = NoCall
    /\ req = NoReq
    /\ sel = NoSel
    /\ service \in Services
    /\ containers = Empty

ContainerNext ==
    \/ postContainers
    \/ getContainer
    \/ deleteContainer

ContainerSpec == ContainerInit /\ [][ContainerNext]_vars

(***************************************************************************)
(* Properties                                                              *)
(***************************************************************************)
\* the status of the record a lookup of vmId resolves to, "" without one
StatusOf(m, o, vmId) ==
    IF Lookup(m, vmId) = NoKey THEN "" ELSE o[Lookup(m, vmId)].status

\* the step is a handler of handlers answering a request for vmId without
\* suspending
Answers(handlers, vmId) ==
    /\ resp'.handler \in handlers
    /\ resp'.vmId = vmId
    /\ inflight' = inflight

\* neither the map nor the table holds anything for vmId
NoRecord(vmId) ==
    /\ Lookup(activeVMs, vmId) = NoKey
    /\ ~Has(vms, vmId)

\* C1: once POST /vms with a non-empty name has returned, a get on the id
\* the handler assigned yields a record whose status is ready or error,
\* never initializing.
C1_CreateSettles ==
    (resp.handler = "handleCreateVM" /\ resp.vmId # NoKey) =>
        LET g == readVM(Store, resp.vmId) IN
        /\ g.vm # NoKey
        /\ g.S.objs[g.vm].status \in {"ready", "error"}

\* C2: right after a successful DELETE /vms/{id}, a get on id and a get on
\* working-vm-{id} both find no record.
C2_DeletedIsGone ==
    \A id \in ReqIds :
        resp = Resp("handleDeleteVM", id, 200) =>
            /\ readVM(Store, id).vm = NoKey
            /\ readVM(Store, Alias(id)).vm = NoKey

\* C3: every record in the map is found under its id and under the alias
\* of its id, and both keys refer to that one record; an id has both keys
\* or neither.
C3_AliasInvariant ==
    \A k \in DOMAIN activeVMs :
        LET id == objs[activeVMs[k]].id IN
        /\ Has(activeVMs, id) /\ Has(activeVMs, Alias(id))
        /\ activeVMs[id] = activeVMs[k]
        /\ activeVMs[Alias(id)] = activeVMs[k]

\* C4: GET /vms/{id}/novnc is dispatched to handleNoVNC, never to the
\* generic handleGetVM.
C4_NoVNCDispatch ==
    (req.method = "GET" /\ MatchesSuffix(req.path, "novnc")) =>
        req.handler = "handleNoVNC"

\* C5: GET and POST /vms/{id}/agent/{action}, for each of the five proxy
\* actions, are dispatched to handleAgentProxy.
C5_ProxyDispatch ==
    (req.method \in {"GET", "POST"} /\ MatchesAgentAction(req.path)) =>
        req.handler = "handleAgentProxy"

\* the record with id i is still in the map and has the status
Becomes(i, status) == Has(objs', i) /\ objs'[i].status = status

\* the record with id i, if it is still in the map, has the status
Keeps(i, status) == Has(objs', i) => objs'[i].status = status

C7_ErrorTerminal ==
    [][\A i \in DOMAIN objs :
        (/\ objs[i].status = "error"
         /\ resp'.handler \in {"handleStartVM", "handleRestartVM",
                               "handleStopVM"})
        => Keeps(i, "error")]_vars

\* C7 amended: a record with status error keeps that status through get;
\* start sets it to ready, restart to initializing and stop to stopped.
C7_ErrorUntilStarted ==
    [][\A id \in ReqIds :
        LET i == Lookup(activeVMs, id) IN
        (i # NoKey /\ objs[i].status = "error") =>
            /\ resp'.handler = "handleGetVM" => Keeps(i, "error")
            /\ (Answers({"handleStartVM"}, id) /\ resp'.status = 200)
                 => Becomes(i, "ready")
            /\ (Answers({"handleRestartVM"}, id) /\ resp'.status = 200)
                 => Becomes(i, "initializing")
            /\ (Answers({"handleStopVM"}, id) /\ resp'.status = 200)
                 => Becomes(i, "stopped")]_vars

\* a get has just answered for a record that is in error
C7_witness ==
    \E id \in ReqIds :
        /\ resp = Resp("handleGetVM", id, 200)
        /\ StatusOf(activeVMs, objs, id) = "error"

\* C8: GET /vms/{id} for an id without a record answers 404 and leaves the
\* map and the table as they were.
C8_GetUnknown ==
    [][\A id \in ReqIds :
        (NoRecord(id) /\ Answers({"handleGetVM"}, id)) =>
            /\ resp'.status = 404
            /\ UNCHANGED <<activeVMs, objs, vms>>]_vars

\* C9: POST /vms/{id}/start, /restart and /stop for an id without a record
\* answer 404, leave the map and the table as they were and call nothing.
C9_LifecycleUnknown ==
    [][\A id \in ReqIds :
        (/\ NoRecord(id)
         /\ Answers({"handleStartVM", "handleRestartVM", "handleStopVM"}, id))
        => /\ resp'.status = 404
           /\ UNCHANGED <<activeVMs, objs, vms>>
           /\ net' = NoCall]_vars

\* the record vmId resolves to exists and has no originAgentUrl
NoOrigin(vmId) ==
    /\ Lookup(activeVMs, vmId) # NoKey
    /\ objs[Lookup(activeVMs, vmId)].originAgentUrl = NoUrl

\* the step takes in a proxy request for vmId: handleAgentProxy answers at
\* once or suspends on the upstream call
ProxyRequest(vmId) ==
    \/ Answers({"handleAgentProxy"}, vmId)
    \/ \E s \in Slots :
         /\ inflight[s] = Idle
         /\ inflight'[s].kind = "handleAgentProxy"
         /\ inflight'[s].vmId = vmId

\* C10: a proxy request for a VM whose record has no originAgentUrl is
\* answered 400 at once, and no upstream call is made.
C10_NoOriginIs400 ==
    [][\A id \in ReqIds :
        (NoOrigin(id) /\ ProxyRequest(id)) =>
            /\ resp' = Resp("handleAgentProxy", id, 400)
            /\ net' = NoCall
            /\ inflight' = inflight]_vars

\* the proxy has just answered 400 for a record without originAgentUrl
C10_witness ==
    \E id \in ReqIds :
        /\ resp = Resp("handleAgentProxy", id, 400)
        /\ NoOrigin(id)
        /\ net = NoCall

\* the path the claim assigns to each proxy action
C11_Paths ==
    [action \in ProxyActions |->
        CASE action = "browser/navigate" -> "/browser/navigate"
          [] action = "restart" -> "/browser/restart"
          [] action = "status" -> "/health"
          [] action = "execute" -> "/run"
          [] action = "screenshot" -> "/run"]

\* C11: a proxy request with one of the five actions, for a record that has
\* an originAgentUrl, calls that URL with the path fixed for the action
\* (status -> /health, execute -> /run, ...).
C11_UpstreamPaths ==
    [][\A id \in ReqIds, action \in ProxyActions :
        LET i == Lookup(activeVMs, id) IN
        (/\ i # NoKey
         /\ objs[i].originAgentUrl # NoUrl
         /\ handleAgentProxy(id, action))
        => net' = Call(objs[i].originAgentUrl, C11_Paths[action])]_vars

\* a proxy request is waiting on http://u/health
C11_witness ==
    /\ net = Call(UpstreamAgentUrl, "/health")
    /\ \E s \in Slots : inflight[s].kind = "handleAgentProxy"

\* C19: the step in which the upstream call of a proxy request is answered
\* or fails ends the request without another call, and an answer's status
\* is the status of the response.
C19_NoRetry ==
    [][\A s \in Slots :
        (inflight[s].kind = "handleAgentProxy" /\ inflight'[s] # inflight[s])
        => /\ inflight'[s] = Idle
           /\ net'.url = NoUrl
           /\ resp'.handler = "handleAgentProxy"
           /\ resp'.vmId = inflight[s].vmId
           /\ net'.status # 0 => resp'.status = net'.status]_vars

\* the upstream answered 500 and the proxy passed it on
C19_witness ==
    /\ net = Answered(500)
    /\ resp.handler = "handleAgentProxy"
    /\ resp.status = 500

\* the four selections the claim lists, over the strategies google_cloud
\* (cloud-managed) and cloudflare (edge)
C13_Listed ==
    /\ sel.strategy \in {"google_cloud", "cloudflare"}
    /\ sel.instanceType = E2Standard4 => sel.strategy = "google_cloud"
    /\ sel.instanceType = T3Medium => sel.strategy = "cloudflare"
    /\ (sel.instanceType = M5Large /\ sel.serverId = GoogleCloudServer)
         => sel.strategy = "google_cloud"
    /\ (sel.instanceType = M5Large /\ sel.serverId = NoServer)
         => sel.strategy = "cloudflare"

C12_UnknownActionRejected ==
    (/\ req.method \in {"GET", "POST"}
     /\ Len(req.path) >= 4
     /\ req.path[1] = "vms" /\ req.path[3] = "agent"
     /\ ~MatchesAgentAction(req.path))
    => req.handler \in {"handleAgentProxy", "notFound"}

\* the create suspended in slot s resumes in this step
CreateResumes(s) ==
    /\ inflight[s].kind = "create"
    /\ inflight'[s] = Idle

\* no record and no row with status error lacks an error message
ErrorHasMessage(o, t) ==
    /\ \A i \in DOMAIN o : o[i].status = "error" => o[i].error # NoError
    /\ \A i \in DOMAIN t : t[i].status = "error" => t[i].error # NoError

\* C14: when the call of the cloud-managed backend (the Docker service)
\* throws, the create leaves the record at ready or error, not at
\* initializing; and every record and row with status error carries an
\* error message.
C14_CloudThrowSettles ==
    [][/\ \A s \in Slots :
            (/\ CreateResumes(s)
             /\ inflight[s].await = "docker"
             /\ net'.outcome \in {"rejected", "ok-bad-json"})
            => /\ Has(objs', inflight[s].vm.id)
               /\ objs'[inflight[s].vm.id].status \in {"ready", "error"}
       /\ ErrorHasMessage(objs', vms')]_vars

\* the Docker call of a create was rejected and the record is ready
C14_witness ==
    /\ net = Provisioned("rejected")
    /\ variant = "part_001"
    /\ resp.handler = "handleCreateVM"
    /\ StatusOf(activeVMs, objs, resp.vmId) = "ready"

\* C15: whatever way the external provisioning call fails (unreachable,
\* non-2xx, unusable body), the create ends with the record at ready.
C15_BackendErrorAbsorbed ==
    [][\A s \in Slots :
        (/\ CreateResumes(s)
         /\ net'.outcome \in {"rejected", "not-ok", "ok-bad-json"})
        => Becomes(inflight[s].vm.id, "ready")]_vars

\* C16: POST /vms without a name answers 400 and changes nothing: no
\* record, no row, no handler left waiting, no call.
C16_NoNameNoEffect ==
    [][resp' = Resp("handleCreateVM", NoKey, 400) =>
        /\ UNCHANGED <<activeVMs, objs, vms, inflight>>
        /\ net' = NoCall]_vars

\* a create without a name was answered 400 while the store held a record
C16_witness ==
    /\ resp = Resp("handleCreateVM", NoKey, 400)
    /\ DOMAIN activeVMs # {}

\* C17: a create with a name is acknowledged with 201 and its record is
\* ready or, if provisioning threw, at error with the message recorded and
\* written to the table when D1 is bound.
C17_CreateAcknowledged ==
    (resp.handler = "handleCreateVM" /\ resp.vmId # NoKey) =>
        /\ resp.status = 201
        /\ Has(objs, resp.vmId)
        /\ objs[resp.vmId].status \in {"ready", "error"}
        /\ objs[resp.vmId].status = "error" =>
              /\ objs[resp.vmId].error # NoError
              /\ DbWorks => (Has(vms, resp.vmId)
                              /\ vms[resp.vmId] = ToRow(objs[resp.vmId]))

\* C18: right after a successful DELETE /vms/{id} neither key holds the
\* record, the table holds no row for id and GET /vms does not list id.
C18_DeleteRemoves ==
    \A id \in ReqIds :
        resp = Resp("handleDeleteVM", id, 200) =>
            /\ ~Has(activeVMs, id)
            /\ ~Has(activeVMs, Alias(id))
            /\ ~Has(vms, id)
            /\ ~Has(handleGetVMs(Store).vms, id)

\* C20: every request a handler has finished with is answered; an exception
\* inside the handler is answered 500, so no request ends without a response.
C20_AlwaysAnswered == resp.handler # "none" => resp.status # 0

\* C21: start and restart calls against one id are not serialized: both can
\* be suspended on their restart signal at once, and whichever resumes
\* writes its own status over what the store holds (ready for start,
\* initializing for restart), so the status left after both completed is
\* that of the call that wrote last.
C21_LastWriteWins ==
    [][\A s \in Slots :
          LifecycleResumed(s) =>
              /\ inflight[s].kind = "handleStartVM" =>
                     Becomes(inflight[s].vm.id, "ready")
              /\ inflight[s].kind = "handleRestartVM" =>
                     Becomes(inflight[s].vm.id, "initializing")]_vars

C21_witness ==
    \E s, t \in Slots :
        /\ inflight[s].kind = "handleStartVM"
        /\ inflight[t].kind = "handleRestartVM"
        /\ inflight[s].vm.id = inflight[t].vm.id
        /\ Has(objs, inflight[s].vm.id)

\* C22: a start or restart that was suspended on its restart signal when
\* its record was deleted does not put the record back: if the map holds
\* nothing for the id when the handler resumes, it holds nothing afterwards.
C22_DeletedStaysDeleted ==
    [][\A s \in Slots :
          (LifecycleResumed(s) /\ Lookup(activeVMs, inflight[s].vm.id) = NoKey) =>
              Lookup(activeVMs', inflight[s].vm.id) = NoKey]_vars

\* C23: while a create is suspended on its provisioning backend, a get on
\* the id it assigned returns the initializing record of that create: not
\* 404, not a mock record, not an older record of that id.
C23_InitializingVisible ==
    \A s \in Slots :
        inflight[s].kind = "create" =>
            LET g == readVM(Store, inflight[s].vmId) IN
            /\ g.vm # NoKey
            /\ g.S.objs[g.vm] = inflight[s].vm
            /\ g.S.objs[g.vm].status = "initializing"

\* C24: every create that was accepted and is being provisioned eventually
\* finishes, whatever the provisioning endpoint does.
C24_CreateCompletes ==
    \A s \in 1..MaxInflight :
        (inflight[s].kind = "create") ~> (inflight[s].kind # "create")

\* C25: a GET /vms that succeeds lists every VM of the store, and each of
\* them once: no id is carried by two entries of the list.
C25_ListedOnce ==
    LET list == handleGetVMs(Store) IN
    list.status = 200 =>
        /\ DOMAIN objs \subseteq DOMAIN list.vms
        /\ \A i \in DOMAIN list.vms : list.vms[i] = 1

\* C26: a start or restart of a record with an origin agent URL sends one
\* restart signal (POST origin/browser/restart) and answers only after it
\* settled; whether the signal resolved or rejected, the handler then sends
\* nothing more, stores the record with status ready (start) or
\* initializing (restart), in the table too when D1 works, and answers 200.
C26_SignalSwallowed ==
    [][/\ \A id \in ReqIds :
            LET r == Lookup(activeVMs, id) IN
            ((handleStartVM(id) \/ handleRestartVM(id))
                 /\ r # NoKey /\ objs[r].originAgentUrl # NoUrl) =>
                /\ net' = Call(objs[r].originAgentUrl, "/browser/restart")
                /\ resp' = NoResp
       /\ \A s \in Slots :
            LifecycleResumed(s) =>
                LET c == inflight[s]
                    status == IF c.kind = "handleStartVM" THEN "ready"
                              ELSE "initializing"
                IN /\ net'.url = NoUrl
                   /\ Becomes(c.vm.id, status)
                   /\ DbWorks => Has(vms', c.vm.id) /\ vms'[c.vm.id].status = status
                   /\ resp' = Resp(c.kind, c.vmId, 200)]_vars

C26_witness ==
    /\ net = Signalled("rejected")
    /\ resp = Resp("handleRestartVM", resp.vmId, 200)
    /\ Lookup(activeVMs, resp.vmId) # NoKey
    /\ objs[Lookup(activeVMs, resp.vmId)].status = "initializing"

\* C27: the record a create leaves in ready has the agent URL the backend
\* reported as its originAgentUrl when the backend reported one, and the
\* public agent URL of the record otherwise; it is never empty.
C27_OriginFallback ==
    [][\A s \in Slots :
          (createRealVM(s) /\ Becomes(inflight[s].vm.id, "ready")) =>
              LET vm == objs'[inflight[s].vm.id] IN
              /\ vm.originAgentUrl # NoUrl
              /\ vm.agentUrl = PublicAgentUrl
              /\ net'.outcome = "ok-with-agent-url" =>
                     vm.originAgentUrl = UpstreamAgentUrl
              /\ net'.outcome # "ok-with-agent-url" =>
                     vm.originAgentUrl = vm.agentUrl]_vars

C27_witness ==
    /\ net.outcome = "ok-with-agent-url"
    /\ resp.handler = "handleCreateVM"
    /\ Has(objs, resp.vmId)
    /\ objs[resp.vmId].status = "ready"
    /\ objs[resp.vmId].originAgentUrl = UpstreamAgentUrl

\* C28: selectDeploymentStrategy of part_001 applies its rules first match
\* first: an instance type containing "e2-" selects google_cloud whatever
\* else it contains and whatever the serverId; otherwise one containing
\* "t3." selects cloudflare even when the serverId names the Google Cloud
\* server; otherwise that serverId selects google_cloud; otherwise
\* cloudflare.
C28_FirstMatch ==
    (variant = "part_001" /\ sel.strategy # "none") =>
        LET accelerated == Includes(sel.instanceType, <<"e", "2", "-">>)
            lightweight == Includes(sel.instanceType, <<"t", "3", ".">>)
            preferred == sel.serverId = GoogleCloudServer
        IN /\ accelerated => sel.strategy = "google_cloud"
           /\ (~accelerated /\ lightweight) => sel.strategy = "cloudflare"
           /\ (~accelerated /\ ~lightweight /\ preferred) =>
                  sel.strategy = "google_cloud"
           /\ (~accelerated /\ ~lightweight /\ ~preferred) =>
                  sel.strategy = "cloudflare"

C28_witness ==
    /\ variant = "part_001"
    /\ sel.instanceType = T3Medium
    /\ sel.serverId = GoogleCloudServer
    /\ sel.strategy = "cloudflare"

\* C29: without the Google Cloud credentials a create that chose
\* google_cloud calls no provisioning endpoint, even when the Docker service
\* URL is set: it waits on the timer of the Cloudflare backend, and the
\* record it leaves is the one a Cloudflare create leaves.
C29_DelegatesToEdge ==
    [][\A s \in Slots :
          /\ (/\ inflight[s] = Idle
              /\ inflight'[s].kind = "create"
              /\ inflight'[s].strategy = "google_cloud"
              /\ ~env.gcp) =>
                 /\ net'.url = NoUrl
                 /\ inflight'[s].await = "timer"
          /\ (/\ createRealVM(s)
              /\ inflight[s].strategy = "google_cloud"
              /\ ~env.gcp) =>
                 /\ net'.outcome = "elapsed"
                 /\ Has(objs', inflight[s].vm.id)
                 /\ objs'[inflight[s].vm.id] =
                        [inflight[s].vm EXCEPT !.status = "ready",
                                               !.agentUrl = PublicAgentUrl,
                                               !.originAgentUrl = PublicAgentUrl]]_vars

C29_witness ==
    /\ variant = "part_001" /\ env.docker /\ ~env.gcp
    /\ \E s \in Slots :
          /\ inflight[s].kind = "create"
          /\ inflight[s].strategy = "google_cloud"
          /\ inflight[s].await = "timer"

\* C30: a stop that finds a record stores it with status stopped (in the
\* table too when D1 works) and answers 200; when D1 works the step inserts
\* one event, (id of the request, stopped), and when the insert fails it
\* inserts none and the stored status and the answer are the same.
C30_StopRecordsEvent ==
    [][\A id \in ReqIds :
          LET g == getVMFromStorage(Store, id) IN
          (handleStopVM(id) /\ g.vm # NoKey) =>
              /\ Becomes(g.vm, "stopped")
              /\ resp' = Resp("handleStopVM", id, 200)
              /\ DbWorks =>
                     /\ Has(vms', g.vm) /\ vms'[g.vm].status = "stopped"
                     /\ vm_events' = <<[vm_id |-> id, event_type |-> "stopped"]>>
              /\ ~DbWorks => vm_events' = <<>>]_vars

C30_witness ==
    /\ resp.handler = "handleStopVM" /\ resp.status = 200
    /\ vm_events = <<[vm_id |-> resp.vmId, event_type |-> "stopped"]>>
    /\ Has(vms, resp.vmId) /\ vms[resp.vmId].status = "stopped"

\* the step is a start, stop, delete or create working on the record with
\* id i: a request that answers within the step, or a start or create that
\* resumes after its await
ActsOn(i) ==
    \/ \E s \in Slots :
          /\ inflight[s].kind \in {"handleStartVM", "create"}
          /\ inflight[s].vm.id = i
          /\ inflight'[s] = Idle
    \/ /\ inflight' = inflight
       /\ \/ /\ resp'.handler \in {"handleStartVM", "handleDeleteVM"}
             /\ Lookup(activeVMs, resp'.vmId) = i
          \/ /\ resp'.handler = "handleStopVM"
             /\ getVMFromStorage(Store, resp'.vmId).vm = i
          \/ /\ resp'.handler = "handleCreateVM"
             /\ resp'.vmId = i

\* C31: a record with status initializing, as restart leaves it, keeps that
\* status for as long as it is in the map through every step that is not a
\* start, stop, delete or create working on that record; nothing in the
\* worker moves it to ready on its own.
C31_StaysInitializing ==
    [][\A i \in DOMAIN objs :
          objs[i].status = "initializing" =>
              Keeps(i, "initializing") \/ ActsOn(i)]_vars

C31_witness ==
    \E id \in ReqIds :
        /\ variant # "enhanced"
        /\ resp = Resp("handleGetVM", id, 200)
        /\ StatusOf(activeVMs, objs, id) = "initializing"

\* C32: a DELETE whose path is longer than /vms/{id} is not handed to
\* handleDeleteVM, the one handler that removes a record.
C32_DeleteExactPath ==
    (req.method = "DELETE" /\ StartsWithVms(req.path) /\ Len(req.path) > 2) =>
        req.handler # "handleDeleteVM"

\* C33: whenever a get on id returns a record that a create wrote, the map
\* lookup of start, restart, delete, agent and the agent proxy finds a
\* record for id too, so none of them answers 404.
C33_HandlersAgree ==
    \A id \in ReqIds :
        LET g == readVM(Store, id) IN
        (g.vm # NoKey /\ g.S.objs[g.vm].name \in Names) =>
            Lookup(activeVMs, id) # NoKey

\* C34: a create whose id already names a record in the map answers 201
\* like any other create; afterwards the id and its alias both refer to
\* the record built from the request alone (its name, status ready or
\* error, the URLs of this provisioning), and the row of the id, when D1
\* works, is the row of that record.
C34_CreateReplaces ==
    [][\A s \in Slots :
          (createRealVM(s) /\ Has(activeVMs, inflight[s].vm.id)) =>
              LET vm == inflight[s].vm
                  id == vm.id
              IN /\ resp' = Resp("handleCreateVM", id, 201)
                 /\ Has(activeVMs', id) /\ activeVMs'[id] = id
                 /\ Has(activeVMs', Alias(id)) /\ activeVMs'[Alias(id)] = id
                 /\ \/ objs'[id] = [vm EXCEPT !.status = "error",
                                               !.error = "message"]
                    \/ \E origin \in {PublicAgentUrl, UpstreamAgentUrl} :
                          objs'[id] = [vm EXCEPT !.status = "ready",
                                                 !.agentUrl = PublicAgentUrl,
                                                 !.originAgentUrl = origin]
                 /\ DbWorks => Has(vms', id) /\ vms'[id] = ToRow(objs'[id])]_vars

\* a create is being provisioned for an id under which the map holds a
\* record with another name
C34_witness ==
    \E s \in Slots :
        /\ inflight[s].kind = "create"
        /\ Has(activeVMs, inflight[s].vm.id)
        /\ activeVMs[inflight[s].vm.id] = inflight[s].vm.id
        /\ objs[inflight[s].vm.id].name # inflight[s].vm.name

\* C35: in the worker that takes the id of a create from its body, GET
\* /vms/{id} is handed to handleGetVM whatever the id is, an id equal to
\* the name of a sub-resource included.
C35_GetByAnyId ==
    (/\ variant = "part_001"
     /\ req.method = "GET"
     /\ Len(req.path) = 2 /\ req.path[1] = "vms") =>
        req.handler = "handleGetVM"

\* C36: a step of the agent proxy, the request being taken in (answered at
\* once or forwarded) or the upstream call ending (answered or rejected),
\* leaves the map, every record and the table as they were and inserts no
\* event.
C36_ProxyFrame ==
    [][(\/ \E id \in ReqIds : ProxyRequest(id)
        \/ \E s \in Slots : ProxyResumed(s)) =>
           /\ UNCHANGED <<activeVMs, objs, vms>>
           /\ vm_events' = <<>>]_vars

C36_witness ==
    /\ resp.handler = "handleAgentProxy"
    /\ net = Answered(404)
    /\ Lookup(activeVMs, resp.vmId) # NoKey
    /\ objs[Lookup(activeVMs, resp.vmId)].status = "ready"

\* C37: every container the service holds can be read back with the id
\* field its creation response carried: GET /containers/{that id} finds
\* that container, the real one and the simulated one alike.
C37_ReadBack ==
    \A k \in DOMAIN containers :
        /\ Has(containers, containers[k].id)
        /\ containers[containers[k].id] = containers[k]

====
